---- MODULE Spec2Model ----
(***************************************************************************)
(* Model of the unit converter of src/lec2_flask.py: the POST /convert     *)
(* handler, the two unit tables it reads, and a client that submits        *)
(* requests, re-submits a converted value in the opposite direction        *)
(* (round trip) and re-submits a request under another spelling.           *)
(*                                                                         *)
(* Text is a sequence of one-character strings, so that str.strip(),       *)
(* str.lower() and sorted() are computed.  A number is an integer count of *)
(* 10^-7 units (one decimal digit below the 6 that round(x, 6) keeps);     *)
(* arithmetic is exact decimal arithmetic, where the program uses IEEE     *)
(* doubles.  The inputs are finite decimals: nan and inf are not modelled. *)
(***************************************************************************)
EXTENDS Integers, Sequences, FiniteSets

\* ------------------------------------------------------------- bounds

\* Whole parts of the submitted numbers range over -MaxWhole..MaxWhole.
MaxWhole == 2

\* How many times the client may re-submit (round trip, respelling) after a
\* fresh request.
MaxHops == 2

\* ------------------------------------------------------------- text

Ascii ==
    << "\t", " ", "-", ".", "0", "1", "2", "3", "4", "5", "6", "7", "8", "9",
       "A", "B", "C", "D", "E", "F", "G", "H", "I", "J", "K", "L", "M",
       "N", "O", "P", "Q", "R", "S", "T", "U", "V", "W", "X", "Y", "Z",
       "a", "b", "c", "d", "e", "f", "g", "h", "i", "j", "k", "l", "m",
       "n", "o", "p", "q", "r", "s", "t", "u", "v", "w", "x", "y", "z" >>

\* The code point order of the characters used (Python compares str by code point).
Ord(ch) == CHOOSE i \in 1..Len(Ascii) : Ascii[i] = ch

IsSpace(ch) == ch \in {" ", "\t"}

IsUpper(ch) == Ord(ch) >= Ord("A") /\ Ord(ch) <= Ord("Z")

LowerChar(ch) == IF IsUpper(ch) THEN Ascii[Ord(ch) + 26] ELSE ch

\* str.lower()
lower(s) == [i \in 1..Len(s) |-> LowerChar(s[i])]

RECURSIVE lstrip(_)
lstrip(s) == IF s # <<>> /\ IsSpace(Head(s)) THEN lstrip(Tail(s)) ELSE s

RECURSIVE rstrip(_)
rstrip(s) ==
    IF s # <<>> /\ IsSpace(s[Len(s)]) THEN rstrip(SubSeq(s, 1, Len(s) - 1)) ELSE s

\* str.strip()
strip(s) == rstrip(lstrip(s))

\* s < t in Python's order on str (lexicographic by code point).
RECURSIVE StrLess(_, _)
StrLess(s, t) ==
    IF t = <<>> THEN FALSE
    ELSE IF s = <<>> THEN TRUE
    ELSE IF Head(s) # Head(t) THEN Ord(Head(s)) < Ord(Head(t))
    ELSE StrLess(Tail(s), Tail(t))

RECURSIVE InsertSorted(_, _)
InsertSorted(x, seq) ==
    IF seq = <<>> THEN <<x>>
    ELSE IF StrLess(x, Head(seq)) THEN <<x>> \o seq
    ELSE <<Head(seq)>> \o InsertSorted(x, Tail(seq))

\* sorted(list)
RECURSIVE sorted(_)
sorted(seq) ==
    IF seq = <<>> THEN <<>> ELSE InsertSorted(Head(seq), sorted(Tail(seq)))

\* ------------------------------------------------------------- JSON values

\* A decoded JSON value: null, a boolean, a number, a string or an array.
\* n is the number (in 10^-7 units) or the boolean (0, 1); s the string.
JNull == [t |-> "null", n |-> 0, s |-> <<>>]
JBool(b) == [t |-> "bool", n |-> IF b THEN 1 ELSE 0, s |-> <<>>]
JNum(n) == [t |-> "num", n |-> n, s |-> <<>>]
JStr(s) == [t |-> "str", n |-> 0, s |-> s]
JArr == [t |-> "array", n |-> 0, s |-> <<>>]

\* ------------------------------------------------------------- numbers

\* round(converted, 6) keeps this many decimals.
RoundDigits == 6

\* A number x is the integer x * Scale.
Scale == 10 ^ (RoundDigits + 1)

\* The step of the 6-decimal grid, in 10^-7 units.
Grid == Scale \div (10 ^ RoundDigits)

IsDigit(ch) == Ord(ch) >= Ord("0") /\ Ord(ch) <= Ord("9")

RECURSIVE DigitsVal(_)
DigitsVal(s) ==
    IF s = <<>> THEN 0
    ELSE 10 * DigitsVal(SubSeq(s, 1, Len(s) - 1)) + (Ord(s[Len(s)]) - Ord("0"))

\* float(str) on the decimal forms [ws][-]digits[.digits][ws] with at most
\* RoundDigits + 1 fractional digits; every other text of the model's inputs
\* raises ValueError (ok = FALSE).
ParseFloat(s) ==
    LET t == strip(s)
        neg == t # <<>> /\ Head(t) = "-"
        body == IF neg THEN Tail(t) ELSE t
        dots == {i \in 1..Len(body) : body[i] = "."}
        wellformed ==
            /\ Cardinality(dots) <= 1
            /\ \A i \in 1..Len(body) : IsDigit(body[i]) \/ body[i] = "."
            /\ \E i \in 1..Len(body) : IsDigit(body[i])
        dot == IF dots = {} THEN Len(body) + 1 ELSE CHOOSE i \in dots : TRUE
        whole == SubSeq(body, 1, dot - 1)
        frac == SubSeq(body, dot + 1, Len(body))
        mag == DigitsVal(whole) * Scale
               + DigitsVal(frac) * (10 ^ (RoundDigits + 1 - Len(frac)))
    IN  IF wellformed /\ Len(frac) <= RoundDigits + 1
        THEN [ok |-> TRUE, n |-> IF neg THEN -mag ELSE mag]
        ELSE [ok |-> FALSE, n |-> 0]

\* float(value) of line 120: a number is itself, a boolean is 0.0 or 1.0, a
\* string is parsed, None and a list raise TypeError (ok = FALSE).
float(value) ==
    CASE value.t = "num" -> [ok |-> TRUE, n |-> value.n]
      [] value.t = "bool" -> [ok |-> TRUE, n |-> value.n * Scale]
      [] value.t = "str" -> ParseFloat(value.s)
      [] OTHER -> [ok |-> FALSE, n |-> 0]

\* An exact quotient in floor form: the number q + r/d (in 10^-7 units),
\* 0 <= r < d.
Exact(n) == [q |-> n, r |-> 0, d |-> 1]

\* v * num / den for v >= 0, digit by digit in base 2 so that no intermediate
\* value leaves 32 bits.
RECURSIVE MulDivNat(_, _, _)
MulDivNat(v, num, den) ==
    IF v = 0 THEN [q |-> 0, r |-> 0, d |-> den]
    ELSE LET h == MulDivNat(v \div 2, num, den)
             t == 2 * h.r + (v % 2) * num
         IN  [q |-> 2 * h.q + (t \div den), r |-> t % den, d |-> den]

\* v * num / den, exactly.
MulDiv(v, num, den) ==
    IF v >= 0 THEN MulDivNat(v, num, den)
    ELSE LET m == MulDivNat(-v, num, den)
         IN  IF m.r = 0 THEN [q |-> -m.q, r |-> 0, d |-> den]
             ELSE [q |-> -m.q - 1, r |-> den - m.r, d |-> den]

\* round6 keeping 5 decimals in place of 6.
round6_five_digits(x) == 10 * Grid * ((x.q + 5 * Grid) \div (10 * Grid))

\* round(x, 6): the nearest multiple of 10^-6, a tie going to the even one.
round6(x) ==
    LET a == x.q \div Grid
        b == x.q % Grid
        twice == 2 * b
        up == \/ twice > Grid
              \/ twice = Grid /\ x.r > 0
              \/ twice = Grid /\ x.r = 0 /\ a % 2 = 1
    IN  Grid * (IF up THEN a + 1 ELSE a)

\* Conversion helpers
MileNum == 1609344
MileDen == 10 ^ 6
PoundNum == 45359237
PoundDen == 10 ^ 8

miles_to_km(mi) == MulDiv(mi, MileNum, MileDen)

\* km_to_miles multiplying by the factor, as miles_to_km does.
km_to_miles_mul(km) == MulDiv(km, MileNum, MileDen)

km_to_miles(km) == MulDiv(km, MileDen, MileNum)

lb_to_kg(lb) == MulDiv(lb, PoundNum, PoundDen)

kg_to_lb(kg) == MulDiv(kg, PoundDen, PoundNum)

c_to_f(c) ==
    LET m == MulDiv(c, 9, 5) IN [m EXCEPT !.q = m.q + 32 * Scale]

\* f_to_c subtracting the 32 after scaling: f * 5 / 9 - 32.
f_to_c_late_subtract(f) ==
    LET m == MulDiv(f, 5, 9) IN [m EXCEPT !.q = m.q - 32 * Scale]

f_to_c(f) == MulDiv(f - 32 * Scale, 5, 9)

\* ------------------------------------------------------------- unit tables

\* A dict is the sequence of its (key, value) pairs in insertion order.
ALLOWED_UNITS ==
    << << <<"m","i","l","e","s">>, "length" >>,
       << <<"m","i","l","e">>, "length" >>,
       << <<"m","i">>, "length" >>,
       << <<"k","i","l","o","m","e","t","e","r">>, "length" >>,
       << <<"k","i","l","o","m","e","t","e","r","s">>, "length" >>,
       << <<"k","m">>, "length" >>,
       << <<"k","i","l","o","m","e","t","r","e">>, "length" >>,
       << <<"k","i","l","o","m","e","t","r","e","s">>, "length" >>,
       << <<"p","o","u","n","d","s">>, "weight" >>,
       << <<"p","o","u","n","d">>, "weight" >>,
       << <<"l","b">>, "weight" >>,
       << <<"l","b","s">>, "weight" >>,
       << <<"k","i","l","o","g","r","a","m">>, "weight" >>,
       << <<"k","i","l","o","g","r","a","m","s">>, "weight" >>,
       << <<"k","g">>, "weight" >>,
       << <<"c","e","l","s","i","u","s">>, "temperature" >>,
       << <<"c">>, "temperature" >>,
       << <<"f","a","h","r","e","n","h","e","i","t">>, "temperature" >>,
       << <<"f">>, "temperature" >> >>

\* Normalization map to canonical short keys used inside code
NORMALIZE ==
    << << <<"m","i","l","e","s">>, "mi" >>,
       << <<"m","i","l","e">>, "mi" >>,
       << <<"m","i">>, "mi" >>,
       << <<"k","i","l","o","m","e","t","e","r">>, "km" >>,
       << <<"k","i","l","o","m","e","t","e","r","s">>, "km" >>,
       << <<"k","m">>, "km" >>,
       << <<"k","i","l","o","m","e","t","r","e">>, "km" >>,
       << <<"k","i","l","o","m","e","t","r","e","s">>, "km" >>,
       << <<"p","o","u","n","d","s">>, "lb" >>,
       << <<"p","o","u","n","d">>, "lb" >>,
       << <<"l","b","s">>, "lb" >>,
       << <<"l","b">>, "lb" >>,
       << <<"k","i","l","o","g","r","a","m">>, "kg" >>,
       << <<"k","i","l","o","g","r","a","m","s">>, "kg" >>,
       << <<"k","g">>, "kg" >>,
       << <<"c","e","l","s","i","u","s">>, "c" >>,
       << <<"c">>, "c" >>,
       << <<"f","a","h","r","e","n","h","e","i","t">>, "f" >>,
       << <<"f">>, "f" >> >>

\* dict.keys(), as a list
keys(dict) == [i \in 1..Len(dict) |-> dict[i][1]]

\* dict.get(key): the value, or "None".
get(dict, key) ==
    IF \E i \in 1..Len(dict) : dict[i][1] = key
    THEN dict[CHOOSE i \in 1..Len(dict) : dict[i][1] = key][2]
    ELSE "None"

\* get_unit_type without the case folding that normalize does.
get_unit_type_no_fold(unit) == get(ALLOWED_UNITS, unit)

get_unit_type(unit) == get(ALLOWED_UNITS, lower(unit))

normalize(unit) == get(NORMALIZE, lower(unit))

\* ------------------------------------------------------------- POST /convert

Fields == <<"value", "from_unit", "to_unit">>

\* A response: the status and the JSON payload (keys names the payload's
\* keys; a key that is absent holds the default below).  raised names the
\* exception that left the handler, if one did: the reply is then the
\* server's own 500 page and no payload.  status 0 is "no response yet".
NoResp ==
    [status |-> 0, raised |-> "", keys |-> {}, error |-> "",
     missing |-> <<>>, provided |-> JNull, allowed_units |-> <<>>,
     message |-> <<>>, from_unit |-> <<>>, to_unit |-> <<>>,
     unit_type |-> "", provided_value |-> 0,
     original_value |-> 0, original_unit |-> <<>>, converted_value |-> 0,
     converted_unit |-> <<>>, conversion_type |-> ""]

\* An exception nobody catches.
Raise(exc) == [NoResp EXCEPT !.status = 500, !.raised = exc]

\* error_response(status, {"error": error, ...})
error_response(status, error, ks) ==
    [NoResp EXCEPT !.status = status, !.error = error, !.keys = {"error"} \cup ks]

\* Lines 106-109: the required fields that are not in the body, in order.
MissingFields(body) ==
    SelectSeq(Fields, LAMBDA f : f \notin body.has)

\* ValidateTypes checking the two units before the value.
ValidateTypes_units_first(value, from_unit_raw, to_unit_raw) ==
    IF from_unit_raw.t # "str" \/ strip(from_unit_raw.s) = <<>>
    THEN [error_response(422, "from_unit must be a non-empty string", {"provided"})
             EXCEPT !.provided = from_unit_raw]
    ELSE IF to_unit_raw.t # "str" \/ strip(to_unit_raw.s) = <<>>
    THEN [error_response(422, "to_unit must be a non-empty string", {"provided"})
             EXCEPT !.provided = to_unit_raw]
    ELSE IF ~float(value).ok
    THEN [error_response(422, "value must be a number", {"provided"})
             EXCEPT !.provided = value]
    ELSE NoResp

\* Lines 118-128: value must be numeric, from_unit and to_unit non-empty
\* strings.  NoResp when all three pass.
ValidateTypes(value, from_unit_raw, to_unit_raw) ==
    IF ~float(value).ok
    THEN [error_response(422, "value must be a number", {"provided"})
             EXCEPT !.provided = value]
    ELSE IF from_unit_raw.t # "str" \/ strip(from_unit_raw.s) = <<>>
    THEN [error_response(422, "from_unit must be a non-empty string", {"provided"})
             EXCEPT !.provided = from_unit_raw]
    ELSE IF to_unit_raw.t # "str" \/ strip(to_unit_raw.s) = <<>>
    THEN [error_response(422, "to_unit must be a non-empty string", {"provided"})
             EXCEPT !.provided = to_unit_raw]
    ELSE NoResp

\* The keys in the order of the dict, not sorted.
allowed_units_unsorted == keys(ALLOWED_UNITS)

\* sorted(list(ALLOWED_UNITS.keys())) of lines 138 and 140.
allowed_units_list == sorted(keys(ALLOWED_UNITS))

\* ValidateUnits without the comparison of the two categories.
ValidateUnits_no_category(from_unit_raw, to_unit_raw) ==
    LET from_type == get_unit_type(from_unit_raw)
        to_type == get_unit_type(to_unit_raw)
    IN  IF from_type = "None"
        THEN [error_response(422, "Unsupported from_unit", {"provided", "allowed_units"})
                 EXCEPT !.provided = JStr(from_unit_raw),
                        !.allowed_units = allowed_units_list]
        ELSE IF to_type = "None"
        THEN [error_response(422, "Unsupported to_unit", {"provided", "allowed_units"})
                 EXCEPT !.provided = JStr(to_unit_raw),
                        !.allowed_units = allowed_units_list]
        ELSE NoResp

\* Lines 133-144: both units exist and their categories match.  The
\* arguments are the stripped units.  NoResp when they pass.
ValidateUnits(from_unit_raw, to_unit_raw) ==
    LET from_type == get_unit_type(from_unit_raw)
        to_type == get_unit_type(to_unit_raw)
    IN  IF from_type = "None"
        THEN [error_response(422, "Unsupported from_unit", {"provided", "allowed_units"})
                 EXCEPT !.provided = JStr(from_unit_raw),
                        !.allowed_units = allowed_units_list]
        ELSE IF to_type = "None"
        THEN [error_response(422, "Unsupported to_unit", {"provided", "allowed_units"})
                 EXCEPT !.provided = JStr(to_unit_raw),
                        !.allowed_units = allowed_units_list]
        ELSE IF from_type # to_type
        THEN [error_response(400, "Unsupported conversion types",
                             {"message", "from_unit", "to_unit"})
                 EXCEPT !.message = <<"Cannot convert from ", from_type, " to ", to_type>>,
                        !.from_unit = from_unit_raw,
                        !.to_unit = to_unit_raw]
        ELSE NoResp

\* IsNegative for every unit type, temperature too.
IsNegative_any_type(from_type, value_num) == value_num < 0

\* Line 153: a negative value of a length or a weight.
IsNegative(from_type, value_num) ==
    from_type \in {"length", "weight"} /\ value_num < 0

\* Lines 157-188: the conversion proper.  ok with the converted number, or
\* the error response of an unsupported pair or type.
Dispatch(from_type, from_unit, to_unit, value_num) ==
    LET done(x) == [ok |-> TRUE, converted |-> x, resp |-> NoResp]
        fail(status, error) ==
            [ok |-> FALSE, converted |-> Exact(0),
             resp |-> error_response(status, error, {})]
    IN  IF from_type = "length"
        THEN IF from_unit = to_unit THEN done(Exact(value_num))
             ELSE IF from_unit = "mi" /\ to_unit = "km" THEN done(miles_to_km(value_num))
             ELSE IF from_unit = "km" /\ to_unit = "mi" THEN done(km_to_miles(value_num))
             ELSE fail(400, "Unsupported length conversion pair")
        ELSE IF from_type = "weight"
        THEN IF from_unit = to_unit THEN done(Exact(value_num))
             ELSE IF from_unit = "lb" /\ to_unit = "kg" THEN done(lb_to_kg(value_num))
             ELSE IF from_unit = "kg" /\ to_unit = "lb" THEN done(kg_to_lb(value_num))
             ELSE fail(400, "Unsupported weight conversion pair")
        ELSE IF from_type = "temperature"
        THEN IF from_unit = to_unit THEN done(Exact(value_num))
             ELSE IF from_unit = "c" /\ to_unit = "f" THEN done(c_to_f(value_num))
             ELSE IF from_unit = "f" /\ to_unit = "c" THEN done(f_to_c(value_num))
             ELSE fail(400, "Unsupported temperature conversion pair")
        ELSE fail(500, "Unhandled unit type")

\* Result echoing the units case-folded.
Result_folded(value_num, from_unit_raw, converted, to_unit_raw, from_type) ==
    [NoResp EXCEPT
        !.status = 200,
        !.keys = {"original_value", "original_unit", "converted_value",
                  "converted_unit", "conversion_type"},
        !.original_value = value_num,
        !.original_unit = lower(from_unit_raw),
        !.converted_value = round6(converted),
        !.converted_unit = lower(to_unit_raw),
        !.conversion_type = from_type]

\* Lines 190-199: the result, with the units as they stand after line 131.
Result(value_num, from_unit_raw, converted, to_unit_raw, from_type) ==
    [NoResp EXCEPT
        !.status = 200,
        !.keys = {"original_value", "original_unit", "converted_value",
                  "converted_unit", "conversion_type"},
        !.original_value = value_num,
        !.original_unit = from_unit_raw,
        !.converted_value = round6(converted),
        !.converted_unit = to_unit_raw,
        !.conversion_type = from_type]

\* Lines 130-199, for a body whose three fields passed the type checks.
ConvertUnits(value_num, from_unit_raw, to_unit_raw) ==
    LET units == ValidateUnits(from_unit_raw, to_unit_raw)
        from_type == get_unit_type(from_unit_raw)
        from_unit == normalize(from_unit_raw)
        to_unit == normalize(to_unit_raw)
        d == Dispatch(from_type, from_unit, to_unit, value_num)
    IN  IF units.status # 0 THEN units
        ELSE IF from_unit = "None" \/ to_unit = "None"
        THEN [error_response(422, "Unit normalization failed", {"from_unit", "to_unit"})
                 EXCEPT !.from_unit = from_unit_raw, !.to_unit = to_unit_raw]
        ELSE IF IsNegative(from_type, value_num)
        THEN [error_response(400, "Negative value not allowed for selected unit type",
                             {"unit_type", "provided_value"})
                 EXCEPT !.unit_type = from_type, !.provided_value = value_num]
        ELSE IF ~d.ok THEN d.resp
        ELSE Result(value_num, from_unit_raw, d.converted, to_unit_raw, from_type)

\* The handler of POST /convert on a body that request.get_json() decoded.
\* `f not in body` raises TypeError on None, a number and a boolean; on a
\* string it is a substring test and on a list a membership test, and
\* body.get then raises AttributeError.
convert(body) ==
    IF body.t = "nonjson"
    THEN error_response(422, "Request must be JSON", {"hint"})
    ELSE IF body.t \in {"null", "num", "bool"} THEN Raise("TypeError")
    ELSE IF MissingFields(body) # <<>>
    THEN [error_response(422, "Missing fields", {"missing"})
             EXCEPT !.missing = MissingFields(body)]
    ELSE IF body.t # "object" THEN Raise("AttributeError")
    ELSE LET types == ValidateTypes(body.value, body.from_unit, body.to_unit)
         IN  IF types.status # 0 THEN types
             ELSE ConvertUnits(float(body.value).n, strip(body.from_unit.s),
                               strip(body.to_unit.s))

\* ------------------------------------------------------------- the requests

\* Fractional parts of the submitted numbers: none, 1.1e-6, one half.
Fracs == {0, 11, 5 * (10 ^ RoundDigits)}

\* The values of the examples of /help (lines 206-208), and -5.
ExampleValues == {5 * Scale, 10 * Scale, -10 * Scale, -5 * Scale}

NumInputs ==
    {w * Scale + f : w \in -MaxWhole..MaxWhole, f \in Fracs} \cup ExampleValues

ValueInputs ==
    {JNum(n) : n \in NumInputs}
    \cup {JStr(<<" ", "2", ".", "5", " ">>), JStr(<<"-", "5">>),
          JStr(<<"a", "b", "c">>), JStr(<<>>), JNull, JArr, JBool(TRUE)}

UnitInputs ==
    {JStr(keys(ALLOWED_UNITS)[i]) : i \in 1..Len(ALLOWED_UNITS)}
    \cup {JStr(<<" ", "M", "I", " ">>), JStr(<<"K", "m">>), JStr(<<"K", "G">>),
          JStr(<<"L", "B", "S">>), JStr(<<"F">>),
          JStr(<<"C", "e", "l", "s", "i", "u", "s", " ">>),
          JStr(<<"b", "a", "n", "a", "n", "a">>),
          JStr(<<" ", "B", "a", "n", "a", "n", "a", " ">>),
          JStr(<<>>), JStr(<<" ", " ">>), JNull, JNum(5 * Scale)}

\* The canonical code each submitted unit normalizes to ("None": none).
CodeOf == [u \in UnitInputs |-> IF u.t = "str" THEN normalize(strip(u.s)) ELSE "None"]

\* The other ways to write the unit u.
Respellings(u) ==
    {x \in UnitInputs : CodeOf[x] # "None" /\ CodeOf[x] = CodeOf[u]}

\* A JSON object with the fields named in has.
Object(has, value, from_unit, to_unit) ==
    [t |-> "object", has |-> has, value |-> value,
     from_unit |-> from_unit, to_unit |-> to_unit]

\* A body that is no JSON object; has: the field names `in` finds in it.
Other(t, has) ==
    [t |-> t, has |-> has, value |-> JNull, from_unit |-> JNull, to_unit |-> JNull]

\* No request.
NoBody == Other("none", {})

\* What the client keeps of a response.
Summary(r) ==
    [status |-> r.status, original_value |-> r.original_value,
     converted_value |-> r.converted_value, conversion_type |-> r.conversion_type]

VARIABLES
    pc,      \* "idle": no request yet; "pending": sent; "done": answered
    body,    \* the decoded body of the current request
    resp,    \* the response to it (NoResp while pending)
    chain,   \* how the request came about: "fresh", "roundtrip", "respell"
    prev,    \* Summary of the response the request was derived from
    hops     \* the number of derived requests since the fresh one

vars == <<pc, body, resp, chain, prev, hops>>

Init ==
    /\ pc = "idle"
    /\ body = NoBody
    /\ resp = NoResp
    /\ chain = "fresh"
    /\ prev = Summary(NoResp)
    /\ hops = 0

Send(b, how, p, h) ==
    /\ body' = b
    /\ pc' = "pending"
    /\ resp' = NoResp
    /\ chain' = how
    /\ prev' = p
    /\ hops' = h

\* The client posts {value, from_unit, to_unit}.
Submit ==
    /\ pc = "idle"
    /\ \E v \in ValueInputs, f \in UnitInputs, t \in UnitInputs :
          Send(Object({"value", "from_unit", "to_unit"}, v, f, t),
               "fresh", Summary(NoResp), 0)

\* The client posts a JSON object that lacks some of the fields.
SubmitPartial ==
    /\ pc = "idle"
    /\ \E has \in (SUBSET {"value", "from_unit", "to_unit"})
                     \ {{"value", "from_unit", "to_unit"}} :
          Send(Object(has, JNull, JNull, JNull), "fresh", Summary(NoResp), 0)

\* The client posts a body that is not JSON, or JSON that is no object.  A
\* string or an array may hold any of the three field names.
SubmitOther ==
    /\ pc = "idle"
    /\ \/ \E t \in {"nonjson", "null", "num", "bool"} :
             Send(Other(t, {}), "fresh", Summary(NoResp), 0)
       \/ \E t \in {"str", "array"}, has \in SUBSET {"value", "from_unit", "to_unit"} :
             Send(Other(t, has), "fresh", Summary(NoResp), 0)

\* The server answers the request.
Handle ==
    /\ pc = "pending"
    /\ resp' = convert(body)
    /\ pc' = "done"
    /\ UNCHANGED <<body, chain, prev, hops>>

\* The client feeds the converted value back in the opposite direction.
RoundTrip ==
    /\ pc = "done"
    /\ resp.status = 200
    /\ hops < MaxHops
    /\ CodeOf[body.from_unit] # CodeOf[body.to_unit]
    /\ Send(Object(body.has, JNum(resp.converted_value), body.to_unit, body.from_unit),
            "roundtrip", Summary(resp), hops + 1)

\* The client repeats the request with the same value and other spellings
\* of the same two units.
Respell ==
    /\ pc = "done"
    /\ body.t = "object"
    /\ hops < MaxHops
    /\ \E f \in Respellings(body.from_unit), t \in Respellings(body.to_unit) :
          Send(Object(body.has, body.value, f, t), "respell", Summary(resp), hops + 1)

\* The client is done with the response; the next request is a fresh one.
Forget ==
    /\ pc = "done"
    /\ pc' = "idle"
    /\ body' = NoBody
    /\ resp' = NoResp
    /\ chain' = "fresh"
    /\ prev' = Summary(NoResp)
    /\ hops' = 0

Next ==
    \/ Submit
    \/ SubmitPartial
    \/ SubmitOther
    \/ Handle
    \/ RoundTrip
    \/ Respell
    \/ Forget

Spec == Init /\ [][Next]_vars

\* ------------------------------------------------------------- properties

AllFields == {"value", "from_unit", "to_unit"}

Abs(x) == IF x < 0 THEN -x ELSE x

\* The current request is a JSON object with the three fields, and answered.
Answered == pc = "done" /\ body.t = "object" /\ body.has = AllFields

\* The request's value as a number, when it is coercible.
ValueOk == float(body.value).ok
ValueNum == float(body.value).n

IsUnitString(u) == u.t = "str" /\ strip(u.s) # <<>>

\* The category of a unit of the request: that of the registry entry whose
\* key is the unit trimmed and case-folded; "None" when there is none.
CategoryOf(u) ==
    LET key == IF IsUnitString(u) THEN lower(strip(u.s)) ELSE <<>>
        at == {i \in 1..Len(ALLOWED_UNITS) : ALLOWED_UNITS[i][1] = key}
    IN  IF at = {} THEN "None" ELSE ALLOWED_UNITS[CHOOSE i \in at : TRUE][2]

CategoryTable == [u \in UnitInputs |-> CategoryOf(u)]

FromCat == CategoryTable[body.from_unit]
ToCat == CategoryTable[body.to_unit]
FromCode == CodeOf[body.from_unit]
ToCode == CodeOf[body.to_unit]

SameCategory == FromCat # "None" /\ FromCat = ToCat

NegativeForCategory == FromCat \in {"length", "weight"} /\ ValueNum < 0

\* The request passes every validation.
Valid == Answered /\ ValueOk /\ SameCategory /\ ~NegativeForCategory

\* The formula the canonical codes select, on the value v.
Expected(v) ==
    CASE FromCode = ToCode -> Exact(v)
      [] FromCode = "mi" /\ ToCode = "km" -> MulDiv(v, 1609344, 1000000)
      [] FromCode = "km" /\ ToCode = "mi" -> MulDiv(v, 1000000, 1609344)
      [] FromCode = "lb" /\ ToCode = "kg" -> MulDiv(v, 45359237, 100000000)
      [] FromCode = "kg" /\ ToCode = "lb" -> MulDiv(v, 100000000, 45359237)
      [] FromCode = "c" /\ ToCode = "f" ->
            LET m == MulDiv(v, 9, 5) IN [m EXCEPT !.q = m.q + 320000000]
      [] FromCode = "f" /\ ToCode = "c" -> MulDiv(v - 320000000, 5, 9)

\* x rounded to 6 decimals, half to even: the multiple of Grid nearest to x.
Nearest6(x) ==
    CHOOSE n \in {Grid * (x.q \div Grid), Grid * (x.q \div Grid) + Grid} :
        LET twice == 2 * (n - x.q)   \* twice the distance, less 2 r/d
        IN  \/ Abs(twice) < Grid
            \/ twice = Grid /\ x.r > 0
            \/ twice = Grid /\ x.r = 0 /\ (n \div Grid) % 2 = 0
            \/ twice = -Grid /\ x.r = 0 /\ (n \div Grid) % 2 = 0

\* C1: every request that passes validation is answered 200 with
\* converted_value the 6-decimal rounding of the formula its two canonical
\* codes select (5 mi -> km is 8.04672, -10 celsius -> fahrenheit is 14.0),
\* and none reaches the normalization, unsupported-pair or unhandled-type
\* responses.
C1_ValidConverts ==
    Valid =>
        /\ resp.status = 200
        /\ resp.converted_value = Nearest6(Expected(ValueNum))
        /\ (ValueNum = 5 * Scale /\ FromCode = "mi" /\ ToCode = "km"
                => resp.converted_value = 80467200)
        /\ (ValueNum = -10 * Scale /\ FromCode = "c" /\ ToCode = "f"
                => resp.converted_value = 14 * Scale)
        /\ resp.error \notin {"Unit normalization failed",
                              "Unsupported length conversion pair",
                              "Unsupported weight conversion pair",
                              "Unsupported temperature conversion pair",
                              "Unhandled unit type"}

C1_Witness ==
    /\ Valid
    /\ ValueNum = 5 * Scale /\ FromCode = "mi" /\ ToCode = "km"
    /\ resp.converted_value = 80467200

\* The kinds of error response, by their "error" text.
ValueError == "value must be a number"
UnitErrors == {"from_unit must be a non-empty string", "to_unit must be a non-empty string"}
UnknownErrors == {"Unsupported from_unit", "Unsupported to_unit"}
MismatchError == "Unsupported conversion types"
NegativeError == "Negative value not allowed for selected unit type"

UnitsAreStrings == IsUnitString(body.from_unit) /\ IsUnitString(body.to_unit)
UnitsKnown == FromCat # "None" /\ ToCat # "None"

\* C2 as stated: the checks in the order (1) units are non-empty strings,
\* (2) value is a number, (3) units recognized, (4) categories match,
\* (5) value not negative for length or weight; the first that fails
\* determines the response.
C2_SpecOrder ==
    Answered =>
        /\ ~UnitsAreStrings => resp.error \in UnitErrors
        /\ UnitsAreStrings /\ ~ValueOk => resp.error = ValueError
        /\ UnitsAreStrings /\ ValueOk /\ ~UnitsKnown => resp.error \in UnknownErrors
        /\ UnitsAreStrings /\ ValueOk /\ UnitsKnown /\ FromCat # ToCat
              => resp.error = MismatchError
        /\ UnitsAreStrings /\ ValueOk /\ SameCategory /\ NegativeForCategory
              => resp.error = NegativeError

\* C2, amended: the checks in the order (1) value is a number, (2) from_unit
\* is a non-empty string, (3) to_unit is one, (4) from_unit is recognized,
\* (5) to_unit is recognized, (6) categories match, (7) value not negative
\* for length or weight; the first that fails determines the response, and a
\* request that fails none is answered 200.
C2_CodeOrder ==
    Answered =>
        /\ ~ValueOk => resp.status = 422 /\ resp.error = ValueError
        /\ ValueOk /\ ~IsUnitString(body.from_unit)
              => resp.status = 422 /\ resp.error = "from_unit must be a non-empty string"
        /\ ValueOk /\ IsUnitString(body.from_unit) /\ ~IsUnitString(body.to_unit)
              => resp.status = 422 /\ resp.error = "to_unit must be a non-empty string"
        /\ ValueOk /\ UnitsAreStrings /\ FromCat = "None"
              => resp.status = 422 /\ resp.error = "Unsupported from_unit"
        /\ ValueOk /\ UnitsAreStrings /\ FromCat # "None" /\ ToCat = "None"
              => resp.status = 422 /\ resp.error = "Unsupported to_unit"
        /\ ValueOk /\ UnitsAreStrings /\ UnitsKnown /\ FromCat # ToCat
              => resp.status = 400 /\ resp.error = MismatchError
        /\ ValueOk /\ UnitsAreStrings /\ SameCategory /\ NegativeForCategory
              => resp.status = 400 /\ resp.error = NegativeError
        /\ Valid => resp.status = 200 /\ resp.error = ""

\* A request with a bad unit and a non-numeric value, answered with the
\* value error.
C2_Witness ==
    /\ Answered
    /\ ~ValueOk
    /\ ~UnitsAreStrings
    /\ resp.status = 422
    /\ resp.error = ValueError

\* C3: every body that decodes as JSON is answered with one of the structured
\* responses of the interface (200 result, 422 or 400 with an error payload);
\* no exception leaves the handler.
C3_AlwaysStructured ==
    pc = "done" /\ body.t # "nonjson" =>
        /\ resp.raised = ""
        /\ resp.status \in {200, 400, 422}
        /\ resp.status # 200 => "error" \in resp.keys

\* C4: a request (with a numeric value of either sign) whose two units are
\* recognized but of different categories is answered 400 with error,
\* message, from_unit and to_unit; whatever its value it is not answered
\* 200; and every 200 result has both units in one category, which it
\* reports as conversion_type.
C4_OneCategory ==
    Answered =>
        /\ UnitsKnown /\ FromCat # ToCat =>
              /\ resp.status # 200
              /\ ValueOk =>
                    /\ resp.status = 400
                    /\ resp.keys = {"error", "message", "from_unit", "to_unit"}
                    /\ resp.error = MismatchError
        /\ resp.status = 200 => SameCategory /\ resp.conversion_type = FromCat

C4_Witness ==
    /\ Answered
    /\ ValueOk /\ ValueNum < 0
    /\ FromCat = "length" /\ ToCat = "weight"
    /\ resp.status = 400
    /\ resp.error = MismatchError

\* C5: with two recognized units of one category, a negative length or weight
\* is answered 400 with unit_type the category and provided_value the value
\* (also when both units are the same), and a negative temperature is
\* answered 200.
C5_NegativeValues ==
    Answered /\ ValueOk /\ SameCategory /\ ValueNum < 0 =>
        /\ FromCat \in {"length", "weight"} =>
              /\ resp.status = 400
              /\ resp.keys = {"error", "unit_type", "provided_value"}
              /\ resp.error = NegativeError
              /\ resp.unit_type = FromCat
              /\ resp.provided_value = ValueNum
        /\ FromCat = "temperature" =>
              /\ resp.status = 200
              /\ resp.error = ""

C5_Witness ==
    /\ Answered
    /\ ValueOk /\ ValueNum < 0
    /\ FromCat = "weight"
    /\ body.from_unit = body.to_unit
    /\ resp.status = 400
    /\ resp.provided_value = ValueNum

\* The spellings of the registry, as a set.
Spellings == {ALLOWED_UNITS[i][1] : i \in 1..Len(ALLOWED_UNITS)}

Trimmed(u) == strip(u.s)

IsKey(u) == lower(Trimmed(u)) \in Spellings

\* The first unit of the request that is no key of the registry.
Offending == IF IsKey(body.from_unit) THEN body.to_unit ELSE body.from_unit

\* C6: with a numeric value and non-empty string units of which one is no key
\* of the registry (trimmed, case-folded), the answer is 422, provided is the
\* offending unit trimmed (from_unit when both are unknown), and
\* allowed_units is every spelling of the registry, once, in ascending
\* order.
C6_UnknownUnit ==
    Answered /\ ValueOk /\ UnitsAreStrings
             /\ (~IsKey(body.from_unit) \/ ~IsKey(body.to_unit)) =>
        /\ resp.status = 422
        /\ resp.keys = {"error", "provided", "allowed_units"}
        /\ resp.error = (IF IsKey(body.from_unit) THEN "Unsupported to_unit"
                                                  ELSE "Unsupported from_unit")
        /\ resp.provided = JStr(Trimmed(Offending))
        /\ resp.allowed_units # <<>>
        /\ Len(resp.allowed_units) = Cardinality(Spellings)
        /\ {resp.allowed_units[i] : i \in 1..Len(resp.allowed_units)} = Spellings
        /\ \A i \in 1..(Len(resp.allowed_units) - 1) :
              StrLess(resp.allowed_units[i], resp.allowed_units[i + 1])

\* Both units unknown, the first of them written with blanks around it.
C6_Witness ==
    /\ Answered /\ ValueOk /\ UnitsAreStrings
    /\ ~IsKey(body.from_unit) /\ ~IsKey(body.to_unit)
    /\ body.from_unit.s # Trimmed(body.from_unit)
    /\ resp.status = 422
    /\ resp.provided = JStr(Trimmed(body.from_unit))
    /\ Len(resp.allowed_units) = 19

\* A request from a recognized unit to the same unit (the same canonical code).
SameUnit == Answered /\ ValueOk /\ FromCode # "None" /\ FromCode = ToCode

\* The response is a result whose converted_value is the value, to 6 decimals.
ValueUnchanged ==
    /\ resp.status = 200
    /\ resp.converted_value % Grid = 0
    /\ 2 * Abs(resp.converted_value - ValueNum) <= Grid

\* C7 as stated: converting any numeric V from a recognized unit U to U is
\* answered with a result whose converted_value is V to 6 decimals.
C7_IdentityAnyValue == SameUnit => ValueUnchanged

\* C7, amended: converting V from a recognized unit U to U is answered with a
\* result whose converted_value is V to 6 decimals, for every numeric V that
\* is not negative when U is a length or a weight.
C7_IdentityAccepted == SameUnit /\ ~NegativeForCategory => ValueUnchanged

\* A negative temperature with more than 6 decimals, from a unit to itself.
C7_Witness ==
    /\ SameUnit
    /\ ValueNum < 0
    /\ ValueNum % Grid # 0
    /\ body.from_unit = body.to_unit
    /\ ValueUnchanged

\* The answer to a request that fed a converted value back.
RoundTripped == pc = "done" /\ chain = "roundtrip"

\* The distance of the value that came back from the value first sent.
RoundTripError == Abs(resp.converted_value - prev.original_value)

\* C8 as stated: feeding the converted_value of convert(V, A, B) into
\* convert(., B, A) yields a converted_value within 1e-6 of V.
C8_RoundTripWithin1 ==
    RoundTripped => resp.status = 200 /\ RoundTripError <= Grid

\* C8, amended: it yields a converted_value within 2e-6 of V, and within 1e-6
\* of V when the first conversion is mi->km, kg->lb or c->f (the way back is
\* then km->mi, lb->kg or f->c).
C8_RoundTripWithin2 ==
    RoundTripped =>
        /\ resp.status = 200
        /\ RoundTripError <= 2 * Grid
        /\ <<FromCode, ToCode>> \in {<<"km", "mi">>, <<"lb", "kg">>, <<"f", "c">>}
              => RoundTripError <= Grid

\* A round trip that comes back more than 1e-6 away.
C8_Witness ==
    /\ RoundTripped
    /\ resp.status = 200
    /\ RoundTripError > Grid
    /\ RoundTripError <= 2 * Grid

\* C9: a request with the same value and other spellings (any case, blanks
\* around) of the same two canonical units has the same status, the same
\* converted_value and the same conversion_type.
C9_SpellingIndependent ==
    pc = "done" /\ chain = "respell" =>
        /\ resp.status = prev.status
        /\ resp.converted_value = prev.converted_value
        /\ resp.conversion_type = prev.conversion_type

\* A result for a unit written in capitals with blanks around it, after the
\* same request under another spelling.
C9_Witness ==
    /\ pc = "done" /\ chain = "respell"
    /\ body.from_unit.s = <<" ", "M", "I", " ">>
    /\ ToCode = "km"
    /\ resp.status = 200
    /\ resp.converted_value = prev.converted_value
    /\ resp.converted_value # 0

\* C10 as stated: in every 200 result original_unit and converted_unit are,
\* character for character, the from_unit and to_unit of the request.
C10_EchoUntrimmed ==
    pc = "done" /\ resp.status = 200 =>
        /\ resp.original_unit = body.from_unit.s
        /\ resp.converted_unit = body.to_unit.s

\* C10, amended: in every 200 result original_unit and converted_unit are the
\* from_unit and to_unit of the request with the blanks around them removed
\* and the letter case kept: never the canonical code or a case-folded form,
\* unless the trimmed unit is exactly that.
C10_EchoTrimmed ==
    pc = "done" /\ resp.status = 200 =>
        /\ resp.original_unit = Trimmed(body.from_unit)
        /\ resp.converted_unit = Trimmed(body.to_unit)

\* A result that echoes a unit in the caller's capitals, without its blanks.
C10_Witness ==
    /\ pc = "done" /\ resp.status = 200
    /\ body.from_unit.s = <<" ", "M", "I", " ">>
    /\ resp.original_unit = <<"M", "I">>
    /\ body.to_unit.s = <<"K", "m">>
    /\ resp.converted_unit = <<"K", "m">>

====
